---- MODULE Spec2Model ----
(***************************************************************************)
(* ThreadSafeQueue<T> (src/ThreadSafeQueue.hpp): a std::queue guarded by   *)
(* one mutex and one condition variable, with a close flag m_joined.       *)
(*                                                                         *)
(* Every action below is one critical section of m_mutex (from a lock      *)
(* acquisition to the next release or condition-variable wait), or one     *)
(* notification issued after the lock was released.  A thread suspended in *)
(* m_condition.wait sits at "get_wait" / "join_wait"; a notification moves *)
(* it to "get_woken" / "join_woken", from where it re-acquires the mutex   *)
(* and re-evaluates its predicate (wait(lock, pred) is                     *)
(* while (!pred()) wait(lock)).                                            *)
(***************************************************************************)
EXTENDS Integers, Sequences, FiniteSets, Bags, TLC

\* Number of threads sharing the queue.
NumThreads == 3

\* Number of distinct values the producers have to push; a Producer pushes
\* this many times.
MaxPush == 2

Threads == 1..NumThreads

Values == 1..MaxPush

VARIABLES
    m_queue,    \* std::queue<T> m_queue: front is Head
    m_joined,   \* std::atomic_bool m_joined
    pc,         \* per thread: where it is inside the operation it called
    ret,        \* per thread: what its last completed call returned
    prog,       \* per thread: the caller's program (what it may call next)
    pushed,     \* history: the values push appended, in the order of the appends
    got         \* history: the values get removed, in the order of the removals

vars == <<m_queue, m_joined, pc, ret, prog, pushed, got>>

----------------------------------------------------------------------------
(* Return values *)

\* no call has returned yet / a call is in progress
NoRet == [op |-> "none", ok |-> FALSE, val |-> 0]

\* get(): return {}  (failed option)
Nothing == [op |-> "get", ok |-> FALSE, val |-> 0]

\* get(): return out
Some(v) == [op |-> "get", ok |-> TRUE, val |-> v]

\* push(): return false / return true
PushRet(b) == [op |-> "push", ok |-> b, val |-> 0]

\* empty(), complete(): the boolean returned
BoolRet(o, b) == [op |-> o, ok |-> b, val |-> 0]

\* size(): the count returned
SizeRet(n) == [op |-> "size", ok |-> TRUE, val |-> n]

\* stop(), join(): void
VoidRet(o) == [op |-> o, ok |-> TRUE, val |-> 0]

----------------------------------------------------------------------------
(* std::queue operations *)

\* variant: the value goes to the front
QPushFront(q, v) == <<v>> \o q

\* m_queue.push(std::move(value))
QPush(q, v) == Append(q, v)

\* variant: the element at the back
QBack(q) == q[Len(q)]

\* m_queue.front()
QFront(q) == Head(q)

\* variant: a pop that drops the element behind the front too
QPopTwo(q) == IF Len(q) >= 2 THEN Tail(Tail(q)) ELSE Tail(q)

\* m_queue.pop()
QPop(q) == Tail(q)

----------------------------------------------------------------------------
(* Conditions the code evaluates under the lock *)

\* m_joined and m_queue.size() == 0   (get: both checks; complete())
Complete(q, j) == j /\ Len(q) = 0

\* variant: a predicate that only looks for an element
GetPredNonEmpty(q, j) == q # <<>>

\* get's wait predicate: !m_queue.empty() or (m_joined and m_queue.empty())
GetPred(q, j) == q # <<>> \/ (j /\ q = <<>>)

\* variant: a predicate that forgets the backlog
JoinPredJoinedOnly(q, j) == j

\* join's wait predicate: m_joined and m_queue.empty()
JoinPred(q, j) == j /\ q = <<>>

----------------------------------------------------------------------------
(* The condition variable *)

\* threads suspended in m_condition.wait
Waiters(p) == {t \in Threads : p[t] \in {"get_wait", "join_wait"}}

\* the threads of S are unblocked: each must re-acquire the mutex next
Wake(p, S) ==
    [t \in Threads |->
        IF t \in S /\ p[t] = "get_wait" THEN "get_woken"
        ELSE IF t \in S /\ p[t] = "join_wait" THEN "join_woken"
        ELSE p[t]]

\* notify_all: every suspended thread is unblocked
NotifyAll(p) == {Waiters(p)}

\* notify_one: one suspended thread, whichever, is unblocked (none if none waits)
NotifyOne(p) == IF Waiters(p) = {} THEN {{}} ELSE {{w} : w \in Waiters(p)}

\* variant: no notification after the pop
GetNotifyNobody(p) == {{}}

\* variant: the pop wakes one thread only
GetNotifyOne(p) == NotifyOne(p)

\* get: m_condition.notify_all() after the pop
GetNotify(p) == NotifyAll(p)

\* push: m_condition.notify_one() after the unlock
PushNotifySet(p) == NotifyOne(p)

\* variant: stop wakes one thread only
StopNotifyOne(p) == NotifyOne(p)

\* stop: m_condition.notify_all() after the unlock
StopNotifySet(p) == NotifyAll(p)

----------------------------------------------------------------------------
(* Callers *)

\* main.cpp's worker lambda: while (true) { item = get(); if (not item) break; }
Worker == [name |-> "worker", rest |-> <<"get">>]

\* main.cpp's main thread: push(1333); join();
Main == [name |-> "main", rest |-> <<"push", "join">>]

\* a thread that may call get, push, stop and join at any time, in any order
Free == [name |-> "free", rest |-> <<>>]

\* a producer thread: MaxPush pushes
Producer == [name |-> "producer", rest |-> [i \in 1..MaxPush |-> "push"]]

\* a thread that calls join() / stop() once
Joiner == [name |-> "joiner", rest |-> <<"join">>]
Stopper == [name |-> "stopper", rest |-> <<"stop">>]

\* a thread that may read size(), empty() and complete() at any time
Observer == [name |-> "observer", rest |-> <<>>]

\* a thread that calls nothing
Idle == [name |-> "idle", rest |-> <<>>]

Programs == <<Main, Producer, Joiner, Stopper, Observer, Worker, Idle>>

\* the calls program p may make next
NextCalls(p) ==
    IF p.name = "free" THEN {"get", "push", "stop", "join"}
    ELSE IF p.name = "observer" THEN {"size", "empty", "complete"}
    ELSE IF p.rest = <<>> THEN {}
    ELSE {Head(p.rest)}

\* thread t is outside any call and its program lets it call op next
CanCall(t, op) ==
    /\ pc[t] = "idle"
    /\ op \in NextCalls(prog[t])

\* the caller's program after a call returned r
Advance(p, r) ==
    IF p.name \in {"free", "observer"} THEN p
    ELSE IF p.name = "worker"
         THEN IF r = Nothing THEN [p EXCEPT !.rest = <<>>] ELSE p
         ELSE [p EXCEPT !.rest = Tail(p.rest)]

\* thread t returns r to its caller; p is pc after any notification
Return(t, r, p) ==
    /\ pc' = [p EXCEPT ![t] = "idle"]
    /\ ret' = [ret EXCEPT ![t] = r]
    /\ prog' = [prog EXCEPT ![t] = Advance(prog[t], r)]

\* thread t stays inside its call, at location l
Goto(t, l) ==
    /\ pc' = [pc EXCEPT ![t] = l]
    /\ ret' = [ret EXCEPT ![t] = NoRet]
    /\ UNCHANGED prog

\* producers push distinct values: the next one not pushed yet
NextValue == Len(pushed) + 1

----------------------------------------------------------------------------
(* get() *)

\* lines 63-76, under the lock, after the wait predicate held
GetTake(t) ==
    IF Complete(m_queue, m_joined)
    THEN /\ Return(t, Nothing, pc)
         /\ UNCHANGED <<m_queue, m_joined, pushed, got>>
    ELSE /\ m_queue' = QPop(m_queue)
         /\ got' = Append(got, QFront(m_queue))
         /\ \E S \in GetNotify(pc) : Return(t, Some(QFront(m_queue)), Wake(pc, S))
         /\ UNCHANGED <<m_joined, pushed>>

\* variant: a get that suspends whenever the queue is empty, closed or not
GetCallBlocking(t) ==
    /\ CanCall(t, "get")
    /\ IF m_queue # <<>>
       THEN GetTake(t)
       ELSE /\ Goto(t, "get_wait")
            /\ UNCHANGED <<m_queue, m_joined, pushed, got>>

\* variant: a get that gives up on any empty queue, closed or not
GetCallNonBlocking(t) ==
    /\ CanCall(t, "get")
    /\ IF m_queue = <<>>
       THEN /\ Return(t, Nothing, pc)
            /\ UNCHANGED <<m_queue, m_joined, pushed, got>>
       ELSE GetTake(t)

\* lines 44-61: lock, early return on complete, else predicate or suspend
GetCall(t) ==
    /\ CanCall(t, "get")
    /\ IF Complete(m_queue, m_joined)
       THEN /\ Return(t, Nothing, pc)
            /\ UNCHANGED <<m_queue, m_joined, pushed, got>>
       ELSE IF GetPred(m_queue, m_joined)
            THEN GetTake(t)
            ELSE /\ Goto(t, "get_wait")
                 /\ UNCHANGED <<m_queue, m_joined, pushed, got>>

\* an unblocked get re-acquires the lock and re-evaluates the predicate
GetWake(t) ==
    /\ pc[t] = "get_woken"
    /\ IF GetPred(m_queue, m_joined)
       THEN GetTake(t)
       ELSE /\ Goto(t, "get_wait")
            /\ UNCHANGED <<m_queue, m_joined, pushed, got>>

----------------------------------------------------------------------------
(* push() *)

\* variant: a push that never looks at m_joined
PushCallUnchecked(t, v) ==
    /\ CanCall(t, "push")
    /\ v = NextValue
    /\ m_queue' = QPush(m_queue, v)
    /\ pushed' = Append(pushed, v)
    /\ Goto(t, "push_notify")
    /\ UNCHANGED <<m_joined, got>>

\* variant: a push that appends before it looks at m_joined
PushCallLateCheck(t, v) ==
    /\ CanCall(t, "push")
    /\ v = NextValue
    /\ m_queue' = QPush(m_queue, v)
    /\ IF m_joined
       THEN /\ Return(t, PushRet(FALSE), pc)
            /\ UNCHANGED <<m_joined, pushed, got>>
       ELSE /\ pushed' = Append(pushed, v)
            /\ Goto(t, "push_notify")
            /\ UNCHANGED <<m_joined, got>>

\* lines 86-93: lock, reject if joined, else append and unlock
PushCall(t, v) ==
    /\ CanCall(t, "push")
    /\ m_joined \/ v = NextValue
    /\ IF m_joined
       THEN /\ Return(t, PushRet(FALSE), pc)
            /\ UNCHANGED <<m_queue, m_joined, pushed, got>>
       ELSE /\ m_queue' = QPush(m_queue, v)
            /\ pushed' = Append(pushed, v)
            /\ Goto(t, "push_notify")
            /\ UNCHANGED <<m_joined, got>>

\* lines 95-96: notify_one, return true
PushNotify(t) ==
    /\ pc[t] = "push_notify"
    /\ \E S \in PushNotifySet(pc) : Return(t, PushRet(TRUE), Wake(pc, S))
    /\ UNCHANGED <<m_queue, m_joined, pushed, got>>

----------------------------------------------------------------------------
(* empty(), size(), complete() *)

EmptyCall(t) ==
    /\ CanCall(t, "empty")
    /\ Return(t, BoolRet("empty", m_queue = <<>>), pc)
    /\ UNCHANGED <<m_queue, m_joined, pushed, got>>

SizeCall(t) ==
    /\ CanCall(t, "size")
    /\ Return(t, SizeRet(Len(m_queue)), pc)
    /\ UNCHANGED <<m_queue, m_joined, pushed, got>>

\* variant: complete() that reports the flag alone
CompleteCallJoinedOnly(t) ==
    /\ CanCall(t, "complete")
    /\ Return(t, BoolRet("complete", m_joined), pc)
    /\ UNCHANGED <<m_queue, m_joined, pushed, got>>

CompleteCall(t) ==
    /\ CanCall(t, "complete")
    /\ Return(t, BoolRet("complete", Complete(m_queue, m_joined)), pc)
    /\ UNCHANGED <<m_queue, m_joined, pushed, got>>

----------------------------------------------------------------------------
(* stop() (the destructor runs exactly this) *)

\* variant: the flag is flipped instead of set
CloseToggle(j) == ~j

\* m_joined = true
Close(j) == TRUE

\* variant: a stop that throws the backlog away
StopCallDiscard(t) ==
    /\ CanCall(t, "stop")
    /\ m_joined' = Close(m_joined)
    /\ m_queue' = <<>>
    /\ Goto(t, "stop_notify")
    /\ UNCHANGED <<pushed, got>>

\* variant: a stop that waits for the backlog, as join does
StopCallDrain(t) ==
    /\ CanCall(t, "stop")
    /\ m_joined' = Close(m_joined)
    /\ IF m_queue = <<>> THEN Goto(t, "stop_notify") ELSE Goto(t, "join_wait")
    /\ UNCHANGED <<m_queue, pushed, got>>

\* lines 126-129: lock, set m_joined, unlock
StopCall(t) ==
    /\ CanCall(t, "stop")
    /\ m_joined' = Close(m_joined)
    /\ Goto(t, "stop_notify")
    /\ UNCHANGED <<m_queue, pushed, got>>

\* line 131: notify_all
StopNotify(t) ==
    /\ pc[t] = "stop_notify"
    /\ \E S \in StopNotifySet(pc) : Return(t, VoidRet("stop"), Wake(pc, S))
    /\ UNCHANGED <<m_queue, m_joined, pushed, got>>

----------------------------------------------------------------------------
(* join() *)

\* variant: a join that always suspends first (a wait with no predicate)
JoinCallPlainWait(t) ==
    /\ CanCall(t, "join")
    /\ m_joined' = Close(m_joined)
    /\ Goto(t, "join_wait")
    /\ UNCHANGED <<m_queue, pushed, got>>

\* lines 140-154: lock, set m_joined, return if empty, else predicate or suspend
JoinCall(t) ==
    /\ CanCall(t, "join")
    /\ m_joined' = Close(m_joined)
    /\ IF Len(m_queue) = 0 \/ JoinPred(m_queue, Close(m_joined))
       THEN Return(t, VoidRet("join"), pc)
       ELSE Goto(t, "join_wait")
    /\ UNCHANGED <<m_queue, pushed, got>>

\* an unblocked join re-acquires the lock and re-evaluates the predicate
JoinWake(t) ==
    /\ pc[t] = "join_woken"
    /\ IF JoinPred(m_queue, m_joined)
       THEN Return(t, VoidRet("join"), pc)
       ELSE Goto(t, "join_wait")
    /\ UNCHANGED <<m_queue, m_joined, pushed, got>>

----------------------------------------------------------------------------
(* std::condition_variable::wait may return without any notification *)

SpuriousWake(t) ==
    /\ pc[t] \in {"get_wait", "join_wait"}
    /\ pc' = Wake(pc, {t})
    /\ UNCHANGED <<m_queue, m_joined, ret, prog, pushed, got>>

----------------------------------------------------------------------------

\* the queue as constructed: empty, m_joined { false }
InitQueue ==
    /\ m_queue = <<>>
    /\ m_joined = FALSE
    /\ pc = [t \in Threads |-> "idle"]
    /\ ret = [t \in Threads |-> NoRet]
    /\ pushed = <<>>
    /\ got = <<>>

\* the threads call the operations at any time, in any order: the first k
\* threads the operations that act on the queue, the others its readers
Init ==
    /\ InitQueue
    /\ \E k \in 0..NumThreads :
          prog = [t \in Threads |-> IF t <= k THEN Free ELSE Observer]

\* every thread runs one of the caller programs; threads are interchangeable,
\* so the programs are dealt in the order of Programs
InitCallers ==
    /\ InitQueue
    /\ \E f \in [Threads -> 1..Len(Programs)] :
          /\ \A t \in Threads \ {NumThreads} : f[t] <= f[t + 1]
          /\ prog = [t \in Threads |-> Programs[f[t]]]

\* steps that continue a call in progress
Continue(t) ==
    \/ GetWake(t)
    \/ PushNotify(t)
    \/ StopNotify(t)
    \/ JoinWake(t)

\* steps that start a call
Call(t) ==
    \/ GetCall(t)
    \/ \E v \in Values : PushCall(t, v)
    \/ EmptyCall(t)
    \/ SizeCall(t)
    \/ CompleteCall(t)
    \/ StopCall(t)
    \/ JoinCall(t)

Next ==
    \E t \in Threads :
        \/ Call(t)
        \/ Continue(t)
        \/ SpuriousWake(t)

Spec == Init /\ [][Next]_vars

\* a scheduled thread eventually runs: it takes the mutex when it wants it and
\* its program goes on to its next call.  A spurious wakeup is never owed.
Step(t) == Call(t) \/ Continue(t)

Fairness == \A t \in Threads : WF_vars(Step(t))

FairSpec == InitCallers /\ [][Next]_vars /\ Fairness

----------------------------------------------------------------------------
(* Helpers for the properties *)

Range(s) == {s[i] : i \in DOMAIN s}

\* the multiset of the elements of a sequence
BagOfSeq(s) == [v \in Range(s) |-> Cardinality({i \in DOMAIN s : s[i] = v})]

NoDuplicates(s) == \A i, j \in DOMAIN s : s[i] = s[j] => i = j

IsPrefix(s, r) == Len(s) <= Len(r) /\ \A i \in DOMAIN s : s[i] = r[i]

InGet(t) == pc[t] \in {"get_wait", "get_woken"}

\* some thread has called get, no get is in progress, and the last get of
\* every thread that called get returned the empty result
ConsumersExhausted ==
    /\ \E t \in Threads : ret[t] = Nothing
    /\ \A t \in Threads : ~InGet(t) /\ (ret[t].op = "get" => ret[t] = Nothing)

----------------------------------------------------------------------------
(* Properties *)

\* C1 (no loss, no duplication): once the queue is closed and every consumer
\* has received the empty result, the values the gets returned are, as a
\* multiset, the values the pushes appended (each such push returns true), and
\* no value was returned twice.
C1_NoLossNoDup ==
    (m_joined /\ ConsumersExhausted) =>
        (BagOfSeq(got) = BagOfSeq(pushed) /\ NoDuplicates(got))

C1_Witness ==
    /\ m_joined
    /\ ConsumersExhausted
    /\ Len(got) >= 2
    /\ Cardinality({t \in Threads : ret[t] = Nothing}) >= 2

\* the caller programs that push / that loop on get
Pushers == {t \in Threads : prog[t].name \in {"main", "producer"}}
Getters == {t \in Threads : prog[t].name = "worker"}

\* C2 (FIFO): with a single producer and a single consumer, the values the
\* consumer's gets returned so far are, in order, a prefix of the values the
\* producer's pushes appended: the k-th value returned is the k-th pushed.
C2_Fifo ==
    (Cardinality(Pushers) = 1 /\ Cardinality(Getters) = 1) => IsPrefix(got, pushed)

C2_Witness ==
    /\ Cardinality(Pushers) = 1
    /\ Cardinality(Getters) = 1
    /\ Len(got) >= 2
    /\ got = pushed

\* C3 (push after close fails): in a state where m_joined is true, a push call
\* returns false and leaves m_queue as it was, and no step of any thread
\* appends to m_queue (a step leaves it alone or removes its front).
C3_PushAfterCloseFails ==
    [][m_joined =>
        /\ \A t \in Threads : \A v \in Values :
              PushCall(t, v) => (ret'[t] = PushRet(FALSE) /\ m_queue' = m_queue)
        /\ \/ m_queue' = m_queue
           \/ m_queue # <<>> /\ m_queue' = Tail(m_queue)]_vars

C3_Witness ==
    /\ m_joined
    /\ m_queue # <<>>
    /\ \E t \in Threads : pc[t] = "idle" /\ ret[t] = PushRet(FALSE)

\* C4 (join drains before returning): whenever a join call returns, straight
\* away or after a suspension, m_joined is true and m_queue is empty.
C4_JoinReturnsDrained ==
    [][\A t \in Threads :
          ((JoinCall(t) \/ JoinWake(t)) /\ pc'[t] = "idle") =>
              (m_joined' /\ m_queue' = <<>>)]_vars

\* a join that suspended on a backlog and was woken once it was drained
C4_Witness ==
    \E t \in Threads :
        /\ pc[t] = "join_woken"
        /\ m_queue = <<>>
        /\ Len(got) >= 2

\* main.cpp: one thread runs push; join, one or more workers loop on get, and
\* no other thread touches the queue
DemoScenario ==
    /\ Cardinality({t \in Threads : prog[t].name = "main"}) = 1
    /\ Getters # {}
    /\ \A t \in Threads : prog[t].name \in {"main", "worker", "idle"}

\* main's join() has returned
MainDone ==
    \A t \in Threads :
        prog[t].name = "main" =>
            (prog[t].rest = <<>> /\ pc[t] = "idle" /\ ret[t] = VoidRet("join"))

\* C5 (the demo does not deadlock): when one thread pushes and then joins
\* while a consumer loops on get, join eventually returns, wherever the
\* consumer is when the push and the join happen.
C5_DemoJoinReturns == DemoScenario ~> MainDone

C5_Witness ==
    /\ DemoScenario
    /\ MainDone
    /\ got = <<1>>

StopInProgress == \E s \in Threads : pc[s] = "stop_notify"

\* C6 (stop wakes blocked consumers): a thread suspended in get when stop has
\* set m_joined eventually returns from get, and returns the empty result if
\* the queue was empty.
C6_StopReleasesGetters ==
    \A t \in Threads :
        /\ (pc[t] = "get_wait" /\ StopInProgress) ~> (pc[t] = "idle")
        /\ (pc[t] = "get_wait" /\ StopInProgress /\ m_queue = <<>>)
              ~> (pc[t] = "idle" /\ ret[t] = Nothing)

\* two consumers that were suspended on the empty queue, unblocked once the
\* only other thread has run stop
C6_Witness ==
    /\ Cardinality(Getters) >= 2
    /\ \A t \in Getters : pc[t] = "get_woken"
    /\ m_queue = <<>>
    /\ \E s \in Threads : prog[s].name = "stopper" /\ ret[s] = VoidRet("stop")
    /\ \A s \in Threads : prog[s].name \in {"stopper", "worker"}

\* C7 (join releases blocked consumers): whenever m_joined is true and m_queue
\* is empty, every thread suspended in get eventually returns the empty result.
C7_CompleteReleasesGetters ==
    \A t \in Threads :
        (pc[t] = "get_wait" /\ Complete(m_queue, m_joined))
            ~> (pc[t] = "idle" /\ ret[t] = Nothing)

\* C8 (get after complete): a get call that takes the lock while m_joined is
\* true and m_queue is empty returns the empty result in that critical
\* section, without suspending.
C8_GetAfterComplete ==
    [][\A t \in Threads :
          (Complete(m_queue, m_joined) /\ GetCall(t)) =>
              (pc'[t] = "idle" /\ ret'[t] = Nothing)]_vars

C8_Witness ==
    /\ Complete(m_queue, m_joined)
    /\ \E t \in Threads : pc[t] = "idle" /\ ret[t] = Nothing
    /\ \A t \in Threads : ~InGet(t)

\* C9 (m_joined is monotonic): m_joined starts false and no step sets it back
\* to false once it is true.
C9_JoinedMonotonic == ~m_joined /\ [][m_joined => m_joined']_vars

\* closed, with a stop and a join both called after the first close
C9_Witness ==
    /\ m_joined
    /\ \E t \in Threads : ret[t] = VoidRet("stop")
    /\ \E t \in Threads : ret[t] = VoidRet("join")

\* C10 (complete is stable): once m_joined is true and m_queue is empty, both
\* stay so after every step, also the notification of a push that appended
\* before the close.
C10_CompleteStable ==
    [][Complete(m_queue, m_joined) => Complete(m_queue', m_joined')]_vars

\* complete while a push that appended earlier has yet to notify
C10_Witness ==
    /\ Complete(m_queue, m_joined)
    /\ \E t \in Threads : pc[t] = "push_notify"

\* a step in which thread t returns from get
GetReturns(t) == (GetCall(t) \/ GetWake(t)) /\ pc'[t] = "idle"

\* C11 (empty result means permanent exhaustion): a get returns the empty
\* result only in a state where m_joined is true and m_queue is empty; that
\* state, once reached, is never left, and every get call that starts in it
\* returns the empty result at once.
C11_EmptyOnlyWhenExhausted ==
    [][/\ \A t \in Threads :
             (GetReturns(t) /\ ret'[t] = Nothing) =>
                 (Complete(m_queue, m_joined) /\ Complete(m_queue', m_joined'))
       /\ Complete(m_queue, m_joined) =>
             /\ Complete(m_queue', m_joined')
             /\ \A t \in Threads :
                   GetCall(t) => (pc'[t] = "idle" /\ ret'[t] = Nothing)]_vars

\* two threads hold the empty result after the whole backlog was returned
C11_Witness ==
    /\ Cardinality({t \in Threads : pc[t] = "idle" /\ ret[t] = Nothing}) >= 2
    /\ Len(got) >= 1
    /\ got = pushed

\* C12 (stop does not discard queued work): no step of stop changes m_queue;
\* on a closed queue with items the only change to m_queue is a get removing
\* the front and returning it, and no get returns the empty result while
\* items remain.
C12_StopKeepsBacklog ==
    [][/\ \A t \in Threads : (StopCall(t) \/ StopNotify(t)) => m_queue' = m_queue
       /\ (m_joined /\ m_queue # <<>>) =>
             \/ m_queue' = m_queue
             \/ \E t \in Threads :
                   /\ GetReturns(t)
                   /\ m_queue' = Tail(m_queue)
                   /\ ret'[t] = Some(Head(m_queue))
       /\ \A t \in Threads :
             (GetReturns(t) /\ m_queue # <<>>) => ret'[t] # Nothing]_vars

\* a stop that has closed a queue holding two items
C12_Witness ==
    /\ Len(m_queue) >= 2
    /\ \E t \in Threads : pc[t] = "stop_notify"

\* C13 (idempotence of shutdown): once m_joined is true, a stop call, and a
\* join call made when m_queue is empty, leave m_joined and m_queue as they
\* were and do not suspend the caller.
C13_ShutdownIdempotent ==
    [][m_joined =>
        \A t \in Threads :
            /\ StopCall(t) =>
                  (m_joined' /\ m_queue' = m_queue /\ pc'[t] = "stop_notify")
            /\ StopNotify(t) =>
                  (m_joined' /\ m_queue' = m_queue /\ pc'[t] = "idle")
            /\ (JoinCall(t) /\ m_queue = <<>>) =>
                  (m_joined' /\ m_queue' = m_queue /\ pc'[t] = "idle")]_vars

\* join returned twice and stop once on the complete queue
C13_Witness ==
    /\ Complete(m_queue, m_joined)
    /\ Cardinality({t \in Threads : ret[t] = VoidRet("join")}) >= 2
    /\ \E t \in Threads : ret[t] = VoidRet("stop")

\* C14 (per-producer order): every step leaves m_queue alone, appends the
\* pushed value at its back, or removes its front and hands that value to the
\* get; so the values still queued, behind the values already removed, are
\* the values appended in the order of their appends, and the values of any
\* one producer leave in the order in which it pushed them.
C14_AppendBackRemoveFront ==
    /\ [](pushed = got \o m_queue)
    /\ [][\/ UNCHANGED <<m_queue, pushed, got>>
          \/ /\ \E v \in Values :
                   m_queue' = Append(m_queue, v) /\ pushed' = Append(pushed, v)
             /\ got' = got
          \/ /\ m_queue # <<>>
             /\ m_queue' = Tail(m_queue)
             /\ got' = Append(got, Head(m_queue))
             /\ pushed' = pushed]_vars

\* two producers have appended and two consumers have removed, one value each
C14_Witness ==
    /\ got = <<1, 2>>
    /\ Cardinality({t \in Threads : ret[t].op = "get" /\ ret[t].ok}) >= 2
    /\ \E t \in Threads : pc[t] = "push_notify"

\* a step of thread t inside push, stop, empty, size or complete
NonBlockingStep(t) ==
    \/ \E v \in Values : PushCall(t, v)
    \/ PushNotify(t)
    \/ StopCall(t)
    \/ StopNotify(t)
    \/ EmptyCall(t)
    \/ SizeCall(t)
    \/ CompleteCall(t)

\* C15 (only get and join suspend): a step of push, stop, empty, size or
\* complete never leaves its thread suspended on the condition variable; the
\* call returns in that step or in the thread's next one (the notification),
\* and that next step can be taken in every state, whoever else is suspended.
C15_OthersNeverSuspend ==
    /\ [](\A t \in Threads :
             /\ pc[t] = "push_notify" => ENABLED PushNotify(t)
             /\ pc[t] = "stop_notify" => ENABLED StopNotify(t))
    /\ [][\A t \in Threads :
             NonBlockingStep(t) =>
                 /\ pc'[t] \in {"idle", "push_notify", "stop_notify"}
                 /\ pc[t] # "idle" => pc'[t] = "idle"]_vars

\* a push was rejected and a stop is under way while a join is suspended
C15_Witness ==
    /\ \E t \in Threads : pc[t] = "join_wait"
    /\ \E t \in Threads : pc[t] = "stop_notify"
    /\ \E t \in Threads : pc[t] = "idle" /\ ret[t] = PushRet(FALSE)

\* C16 (size, empty and complete agree): read in the same state, size()
\* returns the number of values appended and not yet removed, empty() returns
\* true exactly when that number is 0, and complete() returns true exactly
\* when that number is 0 and m_joined is true (so never on an open queue).
C16_ObserversAgree ==
    [][\A t \in Threads :
          /\ SizeCall(t) => ret'[t] = SizeRet(Len(pushed) - Len(got))
          /\ EmptyCall(t) =>
                ret'[t] = BoolRet("empty", Len(pushed) - Len(got) = 0)
          /\ CompleteCall(t) =>
                ret'[t] = BoolRet("complete", m_joined /\ Len(pushed) - Len(got) = 0)]_vars

\* the complete queue read as size 0 and complete by two observers
C16_Witness ==
    /\ Complete(m_queue, m_joined)
    /\ Len(got) >= 1
    /\ \E t \in Threads : ret[t] = SizeRet(0)
    /\ \E t \in Threads : ret[t] = BoolRet("complete", TRUE)

\* C17 (push wakes a consumer): when a push issues its notification while
\* some thread is suspended in get, a thread suspended in get is unblocked.
C17_PushWakesConsumer ==
    [][\A t \in Threads :
          (PushNotify(t) /\ \E c \in Threads : pc[c] = "get_wait") =>
              \E c \in Threads : pc[c] = "get_wait" /\ pc'[c] = "get_woken"]_vars

\* one producer, one joiner and one or more workers, all separate threads
IndependentScenario ==
    /\ Cardinality({t \in Threads : prog[t].name = "producer"}) = 1
    /\ Cardinality({t \in Threads : prog[t].name = "joiner"}) = 1
    /\ Getters # {}
    /\ \A t \in Threads : prog[t].name \in {"producer", "joiner", "worker", "idle"}

\* the joiner's join() has returned
JoinerDone ==
    \A t \in Threads :
        prog[t].name = "joiner" => (pc[t] = "idle" /\ ret[t] = VoidRet("join"))

\* items remain, every worker is suspended in get, the joiner is suspended in
\* join, and no thread has a step left to take unless woken spuriously
StuckWithBacklog ==
    /\ m_queue # <<>>
    /\ \A t \in Getters : pc[t] = "get_wait"
    /\ \A t \in Threads : prog[t].name = "joiner" => pc[t] = "join_wait"
    /\ \A t \in Threads : ~ENABLED Step(t)

\* C18 (join terminates with separate producer and joiner): when one thread
\* pushes, another calls join and workers loop on get, no state is reached
\* where items remain with every worker and the joiner suspended for good;
\* join eventually returns and every value pushed has been returned by a get.
C18_IndependentJoinReturns ==
    /\ [](IndependentScenario => ~StuckWithBacklog)
    /\ IndependentScenario ~> (JoinerDone /\ got = pushed)

\* a step in which a get removes the last item of a closed queue
LastDrain(t) ==
    /\ GetReturns(t)
    /\ m_joined
    /\ Len(m_queue) = 1
    /\ m_queue' = <<>>

\* C19 (last drain releases all waiters): the get that removes the last item
\* of a closed queue leaves no thread suspended on the condition variable,
\* and on the complete queue every unblocked thread eventually returns: from
\* join, or from get with the empty result.
C19_LastDrainReleasesAll ==
    /\ [][\A t \in Threads : LastDrain(t) => Waiters(pc') = {}]_vars
    /\ \A t \in Threads :
          (Complete(m_queue, m_joined) /\ pc[t] \in {"get_woken", "join_woken"})
              ~> (pc[t] = "idle" /\ ret[t] \in {Nothing, VoidRet("join")})

\* the queue just drained, with a join and a get both unblocked
C19_Witness ==
    /\ Complete(m_queue, m_joined)
    /\ Len(got) >= 1
    /\ \E t \in Threads : pc[t] = "join_woken"
    /\ \E t \in Threads : pc[t] = "get_woken"

\* C20 (get suspends only on an open, empty queue): a get goes into the
\* condition-variable wait only from a state where m_joined is false and
\* m_queue is empty, and a get call that starts once m_joined is true
\* returns in its first critical section, with the front item or empty.
C20_GetSuspendsOnlyOpenEmpty ==
    [][\A t \in Threads :
          /\ ((GetCall(t) \/ GetWake(t)) /\ pc'[t] = "get_wait") =>
                (~m_joined /\ m_queue = <<>>)
          /\ (m_joined /\ GetCall(t)) =>
                /\ pc'[t] = "idle"
                /\ ret'[t] = IF m_queue = <<>> THEN Nothing ELSE Some(Head(m_queue))]_vars

\* one get suspended on the open empty queue after another took an item
C20_Witness ==
    /\ ~m_joined
    /\ m_queue = <<>>
    /\ Len(got) >= 1
    /\ \E t \in Threads : pc[t] = "get_wait"

====
